---- MODULE Spec2Model ----
(***************************************************************************)
(* Model of senti_app.py: one upload-and-analyze cycle of the Streamlit    *)
(* script.  json.load, the validation chain, analyze_reviews with its      *)
(* loop over the review dictionary, classify_sentiment, the rendering of   *)
(* the result and the two except clauses.                                  *)
(*                                                                         *)
(* Scores are compound scores in hundredths (0.05 is 5, 1.0 is 100).       *)
(* Strings are sequences of characters; a JSON value is a record whose     *)
(* field t is the name of its Python type.                                 *)
(***************************************************************************)
EXTENDS Integers, Sequences, FiniteSets

\* ---------------------------------------------------------------- bounds
MaxReviews == 2
MaxTextLen == 2

\* ------------------------------------------------------- Python values
Whitespace == {" "}
Chars == Whitespace \cup {"a"}

Strings == UNION {[1..k -> Chars] : k \in 0..MaxTextLen}

StrV(s) == [t |-> "str", s |-> s, n |-> 0]
IntV(n) == [t |-> "int", s |-> <<>>, n |-> n]
NoneV == [t |-> "NoneType", s |-> <<>>, n |-> 0]

\* what a JSON document can hold as a review text
TextValues == {StrV(s) : s \in Strings} \cup {NoneV, IntV(0), IntV(5)}

ReviewIds == <<"id1", "id2", "id3", "id4">>

\* a review dictionary, as the sequence of its items in iteration order
ReviewDicts ==
    UNION {{[i \in 1..k |-> [id |-> ReviewIds[i], text |-> f[i]]] :
                f \in [1..k -> TextValues]} : k \in 0..MaxReviews}

DictV(items) == [t |-> "dict", items |-> items]
NoValue == [t |-> "NoneType", items |-> <<>>]
NonDictValues == {[t |-> ty, items |-> <<>>] : ty \in {"list", "str", "int", "NoneType"}}

Vocabulary == {"reviews", "foo"}
NoDoc == [t |-> "NoneType", members |-> {}, reviews |-> NoValue]

\* a parsed document: members are the keys of a dict, the elements of a
\* list, the substrings of a str; reviews is the value under "reviews"
Documents ==
    {[t |-> "dict", members |-> {"reviews"}, reviews |-> DictV(d)] : d \in ReviewDicts}
    \cup {[t |-> "dict", members |-> m, reviews |-> rv] :
            m \in {{"reviews"}, {"reviews", "foo"}}, rv \in NonDictValues}
    \cup {[t |-> "dict", members |-> m, reviews |-> NoValue] : m \in {{}, {"foo"}}}
    \cup {[t |-> ty, members |-> m, reviews |-> NoValue] :
            ty \in {"list", "str"}, m \in SUBSET Vocabulary}
    \cup {[t |-> ty, members |-> {}, reviews |-> NoValue] : ty \in {"int", "NoneType"}}

Uploads ==
    {[bytes |-> "json", doc |-> d] : d \in Documents}
    \cup {[bytes |-> b, doc |-> NoDoc] : b \in {"malformed", "undecodable"}}

\* ------------------------------------------------------------ messages
Msg(kind, text, detail) == [kind |-> kind, text |-> text, detail |-> detail]
MissingKeyMsg == Msg("error", "JSON must contain 'reviews' key.", "")
WrongTypeMsg == Msg("error", "'reviews' must be a dictionary with id:text format.", "")
EmptyMsg == Msg("warning", "Review dictionary is empty.", "")
InvalidJsonMsg == Msg("error", "Invalid JSON file format.", "")
UnexpectedMsg(e) == Msg("error", "Unexpected Error: ", e)

SuccessOutput == <<"summary_metrics", "output_json", "download_button">>

\* ------------------------------------------------------ pure functions
PosThreshold == 5
NegThreshold == -5
Scores == {-100, -6, -5, -4, 0, 4, 5, 6, 100}
Labels == {"positive", "negative", "neutral"}

\* mutant: exclusive boundaries
classify_sentiment_exclusive(s) ==
    IF s > PosThreshold THEN "positive"
    ELSE IF s < NegThreshold THEN "negative"
    ELSE "neutral"

classify_sentiment(s) ==
    IF s >= PosThreshold THEN "positive"
    ELSE IF s <= NegThreshold THEN "negative"
    ELSE "neutral"

RECURSIVE lstrip(_)
lstrip(s) ==
    IF s # <<>> /\ Head(s) \in Whitespace THEN lstrip(Tail(s)) ELSE s

RECURSIVE rstrip(_)
rstrip(s) ==
    IF s # <<>> /\ s[Len(s)] \in Whitespace THEN rstrip(SubSeq(s, 1, Len(s) - 1)) ELSE s

strip(s) == rstrip(lstrip(s))

\* bool(v)
Truthy(v) ==
    CASE v.t = "str" -> Len(v.s) > 0
      [] v.t = "int" -> v.n # 0
      [] OTHER -> FALSE

\* mutant: the test is `not review_text` alone
BlankTestNoStrip(v) ==
    IF ~Truthy(v) THEN "blank"
    ELSE IF v.t # "str" THEN "AttributeError"
    ELSE "nonblank"

\* `not review_text or not review_text.strip()`: the branch taken, or the
\* exception the evaluation raises
BlankTest(v) ==
    IF ~Truthy(v) THEN "blank"
    ELSE IF v.t # "str" THEN "AttributeError"
    ELSE IF strip(v.s) = <<>> THEN "blank"
    ELSE "nonblank"

\* json.load on the uploaded bytes: the exception it raises on a failure
LoadError(b) == IF b = "undecodable" THEN "UnicodeDecodeError" ELSE "JSONDecodeError"

\* the except clauses: the message reported for an exception
Handler(e) == IF e = "JSONDecodeError" THEN InvalidJsonMsg ELSE UnexpectedMsg(e)

\* ---------------------------------------------------------------- state
VARIABLES uploaded_file, pc, data, rules, analyze_called, idx, visited,
          sentiments, positive_count, negative_count, neutral_count,
          score, sentiment, analyzer_calls, output, rendered, messages, raised

vars == <<uploaded_file, pc, data, rules, analyze_called, idx, visited,
          sentiments, positive_count, negative_count, neutral_count,
          score, sentiment, analyzer_calls, output, rendered, messages, raised>>

loopVars == <<idx, visited, sentiments, positive_count, negative_count,
              neutral_count, score, sentiment, analyzer_calls>>

Init ==
    /\ uploaded_file \in Uploads
    /\ pc = "load"
    /\ data = NoDoc
    /\ rules = <<>>
    /\ analyze_called = FALSE
    /\ idx = 0
    /\ visited = <<>>
    /\ sentiments = <<>>
    /\ positive_count = 0
    /\ negative_count = 0
    /\ neutral_count = 0
    /\ score = <<>>
    /\ sentiment = "unset"
    /\ analyzer_calls = <<>>
    /\ output = <<>>
    /\ rendered = <<>>
    /\ messages = <<>>
    /\ raised = "none"

\* an exception reaches the except clauses: one report, the attempt ends
Raise(e) ==
    /\ raised' = e
    /\ messages' = Append(messages, Handler(e))
    /\ pc' = "done"

\* a validation rule reports and the attempt ends
Report(m) ==
    /\ messages' = Append(messages, m)
    /\ pc' = "done"
    /\ UNCHANGED raised

\* data = json.load(uploaded_file)
JsonLoad ==
    /\ pc = "load"
    /\ IF uploaded_file.bytes = "json"
       THEN /\ data' = uploaded_file.doc
            /\ pc' = "check_key"
            /\ UNCHANGED <<messages, raised>>
       ELSE /\ Raise(LoadError(uploaded_file.bytes))
            /\ UNCHANGED data
    /\ UNCHANGED <<uploaded_file, rules, analyze_called, loopVars, output, rendered>>

\* mutant: the missing key is reported and the chain goes on to the next rule
CheckKeyFallsThrough ==
    /\ pc = "check_key"
    /\ rules' = Append(rules, 1)
    /\ IF data.t \notin {"dict", "list", "str"}
       THEN Raise("TypeError")
       ELSE /\ pc' = "check_type"
            /\ messages' = IF "reviews" \notin data.members
                           THEN Append(messages, MissingKeyMsg) ELSE messages
            /\ UNCHANGED raised
    /\ UNCHANGED <<uploaded_file, data, analyze_called, loopVars, output, rendered>>

\* if "reviews" not in data
CheckKey ==
    /\ pc = "check_key"
    /\ rules' = Append(rules, 1)
    /\ IF data.t \notin {"dict", "list", "str"}
       THEN Raise("TypeError")
       ELSE IF "reviews" \notin data.members
       THEN Report(MissingKeyMsg)
       ELSE pc' = "check_type" /\ UNCHANGED <<messages, raised>>
    /\ UNCHANGED <<uploaded_file, data, analyze_called, loopVars, output, rendered>>

\* mutant: the isinstance test is missing
CheckTypeNoIsinstance ==
    /\ pc = "check_type"
    /\ rules' = Append(rules, 2)
    /\ IF data.t # "dict"
       THEN Raise("TypeError")
       ELSE pc' = "check_empty" /\ UNCHANGED <<messages, raised>>
    /\ UNCHANGED <<uploaded_file, data, analyze_called, loopVars, output, rendered>>

\* elif not isinstance(data["reviews"], dict)
CheckType ==
    /\ pc = "check_type"
    /\ rules' = Append(rules, 2)
    /\ IF data.t # "dict"
       THEN Raise("TypeError")
       ELSE IF data.reviews.t # "dict"
       THEN Report(WrongTypeMsg)
       ELSE pc' = "check_empty" /\ UNCHANGED <<messages, raised>>
    /\ UNCHANGED <<uploaded_file, data, analyze_called, loopVars, output, rendered>>

\* elif len(data["reviews"]) == 0 ... else: analyze_reviews(data["reviews"])
CheckEmpty ==
    /\ pc = "check_empty"
    /\ rules' = Append(rules, 3)
    /\ IF Len(data.reviews.items) = 0
       THEN /\ Report(EmptyMsg)
            /\ UNCHANGED <<analyze_called, loopVars>>
       ELSE /\ analyze_called' = TRUE
            /\ pc' = "loop"
            /\ idx' = 1
            /\ sentiments' = <<>>
            /\ positive_count' = 0
            /\ negative_count' = 0
            /\ neutral_count' = 0
            /\ UNCHANGED <<messages, raised, visited, score, sentiment, analyzer_calls>>
    /\ UNCHANGED <<uploaded_file, data, output, rendered>>

review_dict == data.reviews.items

\* mutant: the items are visited last to first
CurrentItemReversed == review_dict[Len(review_dict) - idx + 1]

\* the item the for loop binds in its idx-th iteration
CurrentItem == review_dict[idx]

InLoop == pc = "loop" /\ idx <= Len(review_dict)

\* sentiments[review_id] = label
SetItem(d, k, v) == [x \in DOMAIN d \cup {k} |-> IF x = k THEN v ELSE d[x]]

\* mutant: the negative branch is missing, a negative label counts as neutral
TallyNoNegative(label) ==
    /\ positive_count' = positive_count + (IF label = "positive" THEN 1 ELSE 0)
    /\ negative_count' = negative_count
    /\ neutral_count' = neutral_count + (IF label # "positive" THEN 1 ELSE 0)

\* the count statements of one iteration that assigned `label`
Tally(label) ==
    /\ positive_count' = positive_count + (IF label = "positive" THEN 1 ELSE 0)
    /\ negative_count' = negative_count + (IF label = "negative" THEN 1 ELSE 0)
    /\ neutral_count' = neutral_count + (IF label \notin {"positive", "negative"} THEN 1 ELSE 0)

\* mutant: an empty review is skipped without a label
LoopBlankSkips ==
    /\ InLoop
    /\ BlankTest(CurrentItem.text) = "blank"
    /\ visited' = Append(visited, CurrentItem.id)
    /\ idx' = idx + 1
    /\ UNCHANGED <<uploaded_file, pc, data, rules, analyze_called, sentiments,
                   positive_count, negative_count, neutral_count, score, sentiment,
                   analyzer_calls, output, rendered, messages, raised>>

\* the empty-review branch of the loop body
LoopBlank ==
    /\ InLoop
    /\ BlankTest(CurrentItem.text) = "blank"
    /\ visited' = Append(visited, CurrentItem.id)
    /\ sentiments' = SetItem(sentiments, CurrentItem.id, "neutral")
    /\ neutral_count' = neutral_count + 1
    /\ idx' = idx + 1
    /\ UNCHANGED <<uploaded_file, pc, data, rules, analyze_called, positive_count,
                   negative_count, score, sentiment, analyzer_calls, output,
                   rendered, messages, raised>>

\* the classifier branch: classify_sentiment(review_text), then the tally
LoopClassify ==
    /\ InLoop
    /\ BlankTest(CurrentItem.text) = "nonblank"
    /\ \E s \in Scores :
        /\ score' = <<s>>
        /\ sentiment' = classify_sentiment(s)
    /\ analyzer_calls' = Append(analyzer_calls, CurrentItem.text)
    /\ visited' = Append(visited, CurrentItem.id)
    /\ sentiments' = SetItem(sentiments, CurrentItem.id, sentiment')
    /\ Tally(sentiment')
    /\ idx' = idx + 1
    /\ UNCHANGED <<uploaded_file, pc, data, rules, analyze_called, output,
                   rendered, messages, raised>>

\* analyzer.polarity_scores raises: nothing in analyze_reviews catches it
LoopAnalyzerFails ==
    /\ InLoop
    /\ BlankTest(CurrentItem.text) = "nonblank"
    /\ analyzer_calls' = Append(analyzer_calls, CurrentItem.text)
    /\ visited' = Append(visited, CurrentItem.id)
    /\ Raise("AnalyzerError")
    /\ UNCHANGED <<uploaded_file, data, rules, analyze_called, idx, sentiments,
                   positive_count, negative_count, neutral_count, score, sentiment,
                   output, rendered>>

\* mutant: the failing entry is skipped and the loop goes on
LoopNonStringSkips ==
    /\ InLoop
    /\ BlankTest(CurrentItem.text) = "AttributeError"
    /\ visited' = Append(visited, CurrentItem.id)
    /\ idx' = idx + 1
    /\ UNCHANGED <<uploaded_file, pc, data, rules, analyze_called, sentiments,
                   positive_count, negative_count, neutral_count, score, sentiment,
                   analyzer_calls, output, rendered, messages, raised>>

\* review_text.strip() on a truthy value that is not a string
LoopNonString ==
    /\ InLoop
    /\ BlankTest(CurrentItem.text) = "AttributeError"
    /\ visited' = Append(visited, CurrentItem.id)
    /\ Raise("AttributeError")
    /\ UNCHANGED <<uploaded_file, data, rules, analyze_called, idx, sentiments,
                   positive_count, negative_count, neutral_count, score, sentiment,
                   analyzer_calls, output, rendered>>

\* the loop is exhausted: build output and return it
AnalyzeReturn ==
    /\ pc = "loop"
    /\ idx > Len(review_dict)
    /\ output' = <<[sentiments |-> sentiments,
                    summary |-> [positive_count |-> positive_count,
                                 negative_count |-> negative_count,
                                 neutral_count |-> neutral_count]]>>
    /\ pc' = "render"
    /\ UNCHANGED <<uploaded_file, data, rules, analyze_called, loopVars,
                   rendered, messages, raised>>

\* summary metrics, st.json(output), download button
Render ==
    /\ pc = "render"
    /\ rendered' = SuccessOutput
    /\ pc' = "done"
    /\ UNCHANGED <<uploaded_file, data, rules, analyze_called, loopVars,
                   output, messages, raised>>

Next ==
    \/ JsonLoad
    \/ CheckKey
    \/ CheckType
    \/ CheckEmpty
    \/ LoopBlank
    \/ LoopClassify
    \/ LoopAnalyzerFails
    \/ LoopNonString
    \/ AnalyzeReturn
    \/ Render

Spec == Init /\ [][Next]_vars

\* ------------------------------------------------------------ properties
Parsed == uploaded_file.bytes = "json" /\ pc # "load"
HasReviewsKey == Parsed /\ data.t = "dict" /\ "reviews" \in data.members
ReviewsIsDict == HasReviewsKey /\ data.reviews.t = "dict"
Entries == 1..Len(review_dict)
IdsOf(S) == {review_dict[i].id : i \in S}
IsString(v) == v.t = "str"
AllStringTexts == \A i \in Entries : IsString(review_dict[i].text)
\* empty, or whitespace only
IsBlankText(v) == IsString(v) /\ \A j \in 1..Len(v.s) : v.s[j] \in Whitespace
IsNonBlankText(v) == IsString(v) /\ \E j \in 1..Len(v.s) : v.s[j] \notin Whitespace
\* a text on which `.strip()` is evaluated and does not exist
IsTruthyNonString(v) == ~IsString(v) /\ v # NoneV /\ v # IntV(0)
CountOf(d, label) == Cardinality({k \in DOMAIN d : d[k] = label})
UnexpectedReported ==
    /\ Len(messages) = 1
    /\ messages[1].kind = "error"
    /\ messages[1].text = "Unexpected Error: "
NoResult == output = <<>> /\ rendered = <<>>

\* C1: the label classify_sentiment returns for a compound score s (in
\* hundredths) is positive when s >= 0.05, negative when s <= -0.05 and
\* neutral strictly in between, both boundaries inclusive.
C1_ClassifyThresholds ==
    score # <<>> =>
        /\ sentiment \in Labels
        /\ (score[1] >= 5 <=> sentiment = "positive")
        /\ (score[1] <= -5 <=> sentiment = "negative")
        /\ ((score[1] > -5 /\ score[1] < 5) <=> sentiment = "neutral")

C1_Witness ==
    /\ score = <<5>>
    /\ sentiment = "positive"
    /\ visited # <<>>
    /\ sentiments[visited[Len(visited)]] = "positive"

\* C2: when analyze_reviews returns for a ReviewSet of string texts, the
\* sentiments mapping has exactly the keys of the ReviewSet, every value is
\* a label, and the three counts add up to the number of entries.
C2_ResultCoversReviewSet ==
    (output # <<>> /\ AllStringTexts) =>
        /\ DOMAIN output[1].sentiments = IdsOf(Entries)
        /\ \A k \in DOMAIN output[1].sentiments : output[1].sentiments[k] \in Labels
        /\ output[1].summary.positive_count + output[1].summary.negative_count
             + output[1].summary.neutral_count = Len(review_dict)

C2_Witness ==
    /\ output # <<>>
    /\ AllStringTexts
    /\ Len(review_dict) >= 2
    /\ \E i \in Entries : IsBlankText(review_dict[i].text)
    /\ \E i \in Entries : IsNonBlankText(review_dict[i].text)

\* C3: in every state of the loop and in the returned result, each count is
\* a non-negative integer equal to the number of ids that sentiments maps
\* to its label.
C3_CountsAreTallies ==
    /\ positive_count >= 0 /\ negative_count >= 0 /\ neutral_count >= 0
    /\ positive_count = CountOf(sentiments, "positive")
    /\ negative_count = CountOf(sentiments, "negative")
    /\ neutral_count = CountOf(sentiments, "neutral")
    /\ output # <<>> =>
        /\ output[1].summary.positive_count = CountOf(output[1].sentiments, "positive")
        /\ output[1].summary.negative_count = CountOf(output[1].sentiments, "negative")
        /\ output[1].summary.neutral_count = CountOf(output[1].sentiments, "neutral")

C3_Witness ==
    /\ pc = "loop"
    /\ idx = 2
    /\ idx <= Len(review_dict)
    /\ negative_count = 1

\* C4: every visited entry whose text is empty or whitespace only is
\* labelled neutral and counted in neutral_count, and its text is never
\* passed to the analyzer.
C4_BlankIsNeutral ==
    LET blank == {i \in 1..Len(visited) : IsBlankText(review_dict[i].text)} IN
    /\ \A i \in blank :
        /\ review_dict[i].id \in DOMAIN sentiments
        /\ sentiments[review_dict[i].id] = "neutral"
        /\ \A c \in 1..Len(analyzer_calls) : analyzer_calls[c] # review_dict[i].text
    /\ neutral_count >= Cardinality(blank)

C4_Witness ==
    /\ pc = "done"
    /\ rendered # <<>>
    /\ Len(visited) >= 2
    /\ review_dict[1].text = StrV(<<" ">>)
    /\ sentiments[review_dict[1].id] = "neutral"
    /\ Len(analyzer_calls) >= 1
    /\ positive_count = 1

\* C5: for a parsed JSON object the rules are evaluated in the order key
\* present, value is a dictionary, dictionary non-empty; the first failing
\* rule emits its message alone, no later rule is evaluated and
\* analyze_reviews is not called; it is called only when all three pass.
C5_ValidationOrder ==
    /\ (pc = "done" /\ Parsed /\ data.t = "dict") =>
        /\ ~HasReviewsKey =>
            /\ messages = <<MissingKeyMsg>>
            /\ rules = <<1>>
            /\ ~analyze_called
        /\ (HasReviewsKey /\ ~ReviewsIsDict) =>
            /\ messages = <<WrongTypeMsg>>
            /\ rules = <<1, 2>>
            /\ ~analyze_called
        /\ (ReviewsIsDict /\ Len(review_dict) = 0) =>
            /\ messages = <<EmptyMsg>>
            /\ rules = <<1, 2, 3>>
            /\ ~analyze_called
    /\ analyze_called =>
        /\ ReviewsIsDict
        /\ Len(review_dict) > 0
        /\ rules = <<1, 2, 3>>

C5_Witness ==
    /\ pc = "done"
    /\ ReviewsIsDict
    /\ messages = <<EmptyMsg>>
    /\ rules = <<1, 2, 3>>

\* C6 as stated: a `reviews` value that is not a string-to-string mapping,
\* a dictionary with a non-string text included, ends with the wrong-type
\* report and no result.
C6_StringMapRequired ==
    (pc = "done" /\ HasReviewsKey /\ ~(ReviewsIsDict /\ AllStringTexts)) =>
        /\ messages = <<WrongTypeMsg>>
        /\ NoResult

\* C6 amended: a `reviews` value that is not a dictionary ends with the
\* wrong-type report and no result.  A non-empty dictionary holding a
\* non-string text never gets that report: with a truthy non-string text
\* the attempt ends with the Unexpected Error report and no result, and in
\* any result that is produced every non-string text is labelled neutral.
C6_DictRequired ==
    (pc = "done" /\ HasReviewsKey) =>
        /\ ~ReviewsIsDict =>
            /\ messages = <<WrongTypeMsg>>
            /\ NoResult
        /\ (ReviewsIsDict /\ ~AllStringTexts) =>
            /\ messages # <<WrongTypeMsg>>
            /\ (\E i \in Entries : IsTruthyNonString(review_dict[i].text)) =>
                /\ UnexpectedReported
                /\ NoResult
            /\ output # <<>> =>
                \A i \in Entries :
                    ~IsString(review_dict[i].text) =>
                        output[1].sentiments[review_dict[i].id] = "neutral"

C6_Witness ==
    /\ pc = "done"
    /\ HasReviewsKey
    /\ data.reviews.t = "list"
    /\ messages = <<WrongTypeMsg>>

\* C7: an upload whose bytes json.load cannot parse, undecodable bytes
\* included, ends with the Invalid JSON report alone and no result.
C7_ParseFailureIsInvalidJson ==
    (pc = "done" /\ uploaded_file.bytes # "json") =>
        /\ messages = <<InvalidJsonMsg>>
        /\ NoResult

\* C8: every attempt ends in exactly one of the six outcomes, and a parsed
\* document without a `reviews` key ends with the missing-key error.
C8_SixOutcomes ==
    pc = "done" =>
        /\ \/ rendered = SuccessOutput /\ output # <<>> /\ messages = <<>>
           \/ /\ NoResult
              /\ \/ messages \in {<<MissingKeyMsg>>, <<WrongTypeMsg>>, <<EmptyMsg>>,
                                  <<InvalidJsonMsg>>}
                 \/ UnexpectedReported
        /\ (Parsed /\ ~HasReviewsKey) => messages = <<MissingKeyMsg>>

\* C9: when the processing of an entry raises (a truthy non-string text, or
\* the analyzer fails), analyze_reviews returns nothing, none of the success
\* output is rendered, the one report is Unexpected Error, and the loop
\* stopped at the failing entry with only the earlier entries labelled.
C9_FailureIsAtomic ==
    (analyze_called /\ pc # "loop"
        /\ (raised # "none" \/ \E i \in Entries : IsTruthyNonString(review_dict[i].text))) =>
        /\ pc = "done"
        /\ raised \in {"AttributeError", "AnalyzerError"}
        /\ NoResult
        /\ messages = <<UnexpectedMsg(raised)>>
        /\ idx = Len(visited)
        /\ DOMAIN sentiments = IdsOf(1..(idx - 1))

C9_Witness ==
    /\ pc = "done"
    /\ raised = "AttributeError"
    /\ Len(visited) = 2
    /\ positive_count = 1

\* C10: the loop visits the entries in iteration order, each once, calls
\* the analyzer once for each non-blank text and never for a blank one,
\* leaves the ReviewSet unchanged, and for string texts and an analyzer
\* that returns it ends after exactly |ReviewSet| iterations.
C10_LoopVisitsEachOnce ==
    analyze_called =>
        /\ data = uploaded_file.doc
        /\ Len(visited) <= Len(review_dict)
        /\ visited = [i \in 1..Len(visited) |-> review_dict[i].id]
        /\ analyzer_calls =
             SelectSeq([i \in 1..Len(visited) |-> review_dict[i].text], IsNonBlankText)
        /\ (pc # "loop" /\ raised = "none" /\ AllStringTexts) =>
            /\ Len(visited) = Len(review_dict)
            /\ idx = Len(review_dict) + 1

C10_Witness ==
    /\ pc = "done"
    /\ raised = "none"
    /\ AllStringTexts
    /\ Len(visited) = 2
    /\ Len(analyzer_calls) = 1
    /\ rendered = SuccessOutput

====
